---- MODULE Spec2Model ----
(***************************************************************************)
(* bfi_rs: a Brainfuck interpreter (src/src/main.rs).                      *)
(*                                                                         *)
(* The pipeline of main is lex -> parse -> run.  lex and parse are pure    *)
(* functions and are operators here; run is a state machine over the       *)
(* memory tape, the data pointer, stdin and stdout, with one action per    *)
(* instruction kind, one for the loop test and one for the return of a     *)
(* (nested) call of run.                                                   *)
(*                                                                         *)
(* Two things depend on the build profile and are chosen at Init:          *)
(* overflow_checks = TRUE is a build that panics on integer overflow       *)
(* (cargo's dev profile), FALSE one that wraps (cargo's release profile).  *)
(*                                                                         *)
(* data_pointer is a usize.  It is held as the signed representative of    *)
(* its value modulo 2^64: 0..2^63-1 stand for themselves and -k stands for *)
(* 2^64 - k, so that usize::MAX is -1.  A negative data_pointer is         *)
(* therefore a huge index, never a valid one.                              *)
(*                                                                         *)
(* Three specifications: Spec is main on every short text, SpecParse is    *)
(* main up to the return of parse on somewhat longer texts, SpecPrograms   *)
(* is main on a few chosen long programs, with the calls of run on a loop  *)
(* body counted.                                                           *)
(***************************************************************************)
EXTENDS Integers, Sequences, FiniteSets, TLC

(* ------------------------------ bounds -------------------------------- *)

\* longest source text drawn at Init
MaxSrcLen == 4

\* longest source text drawn at InitParse
MaxParseLen == 5

\* longest stdin content drawn at Init
MaxInput == 1

\* bytes written to stdout after which Write is no longer taken
MaxOutput == 3

\* the counted programs start with 0..MaxPlus or with 255 times "+"
MaxPlus == 3

(* ------------------------- program constants -------------------------- *)

\* vec![0; 1024]
TapeSize == 1024

\* one more than u8::MAX
CellMod == 256

\* usize::MAX, as the signed representative modulo 2^64
UsizeMax == -1

\* the eight command symbols and one character that is none of them
CommandSymbols == {">", "<", "+", "-", ".", ",", "[", "]"}

SourceChars == CommandSymbols \cup {"a"}

\* bytes that stdin may hold
InputBytes == {1, 255}

(* ------------------------------- lex ---------------------------------- *)

\* the match of lex without its arm for ','
LexSymbolDropsRead(symbol) ==
    CASE symbol = ">" -> <<"IncrementPointer">>
      [] symbol = "<" -> <<"DecrementPointer">>
      [] symbol = "+" -> <<"Increment">>
      [] symbol = "-" -> <<"Decrement">>
      [] symbol = "." -> <<"Write">>
      [] symbol = "[" -> <<"LoopBegin">>
      [] symbol = "]" -> <<"LoopEnd">>
      [] OTHER        -> << >>

\* the match of lex: Some(opcode) as <<opcode>>, None as << >>
LexSymbol(symbol) ==
    CASE symbol = ">" -> <<"IncrementPointer">>
      [] symbol = "<" -> <<"DecrementPointer">>
      [] symbol = "+" -> <<"Increment">>
      [] symbol = "-" -> <<"Decrement">>
      [] symbol = "." -> <<"Write">>
      [] symbol = "," -> <<"Read">>
      [] symbol = "[" -> <<"LoopBegin">>
      [] symbol = "]" -> <<"LoopEnd">>
      [] OTHER        -> << >>

\* the for loop of lex from character k+1 on, operations being the vector
\* built so far
RECURSIVE LexFrom(_, _, _)
LexFrom(src, k, operations) ==
    IF k = Len(src)
    THEN operations
    ELSE LexFrom(src, k + 1, operations \o LexSymbol(src[k + 1]))

lex(src) == LexFrom(src, 0, << >>)

(* ------------------------------ parse --------------------------------- *)

PlainInstr(op) == [op |-> op, body |-> << >>]

\* a Loop that loses its body
LoopInstrEmpty(body) == [op |-> "Loop", body |-> << >>]

\* Instruction::Loop(body)
LoopInstr(body) == [op |-> "Loop", body |-> body]

\* parse returned the program
ParseOk(prog) ==
    [ok |-> TRUE, program |-> prog, err |-> "none", pos |-> 0, nested |-> FALSE]

\* parse panicked with the message err and the index pos; nested tells that
\* the panic was raised by a recursive call
ParsePanic(err, pos) ==
    [ok |-> FALSE, program |-> << >>, err |-> err, pos |-> pos, nested |-> FALSE]

\* opcodes[loop_start+1..i-1]: a body that loses its last opcode
LoopRangeShort(ops, loop_start, i) == SubSeq(ops, loop_start + 2, i - 1)

\* a sub-range that takes the closing bracket with it
LoopRangeWithEnd(ops, loop_start, i) == SubSeq(ops, loop_start + 2, i + 1)

\* opcodes[loop_start+1..i], with i the 0-based index of the closing LoopEnd
LoopRange(ops, loop_start, i) == SubSeq(ops, loop_start + 2, i)

\* a 1-based index in the UnmatchedLoopEnd message
LoopEndIndexOneBased(i) == i + 1

\* the index the UnmatchedLoopEnd panic reports: i of enumerate()
LoopEndIndex(i) == i

\* a check after the for loop that misses a single open loop
LoopLeftOpenAboveOne(loop_stack) == loop_stack > 1

\* the check after the for loop: if loop_stack != 0
LoopLeftOpen(loop_stack) == loop_stack # 0

\* the for loop of parse from the 0-based index i on, followed by the check
\* after the loop
RECURSIVE ParseFrom(_, _, _, _, _)
ParseFrom(ops, i, prog, loop_stack, loop_start) ==
    IF i = Len(ops)
    THEN IF LoopLeftOpen(loop_stack)
         THEN ParsePanic("UnmatchedLoopStart", loop_start)
         ELSE ParseOk(prog)
    ELSE LET op == ops[i + 1] IN
         IF loop_stack = 0
         THEN CASE op = "LoopBegin" -> ParseFrom(ops, i + 1, prog, loop_stack + 1, i)
                [] op = "LoopEnd"   -> ParsePanic("UnmatchedLoopEnd", LoopEndIndex(i))
                [] OTHER            ->
                     ParseFrom(ops, i + 1, Append(prog, PlainInstr(op)),
                               loop_stack, loop_start)
         ELSE CASE op = "LoopBegin" ->
                     ParseFrom(ops, i + 1, prog, loop_stack + 1, loop_start)
                [] op = "LoopEnd"   ->
                     IF loop_stack - 1 = 0
                     THEN LET sub == ParseFrom(LoopRange(ops, loop_start, i),
                                               0, << >>, 0, 0)
                          IN  IF sub.ok
                              THEN ParseFrom(ops, i + 1,
                                             Append(prog, LoopInstr(sub.program)),
                                             loop_stack - 1, loop_start)
                              ELSE [sub EXCEPT !.nested = TRUE]
                     ELSE ParseFrom(ops, i + 1, prog, loop_stack - 1, loop_start)
                [] OTHER            ->
                     ParseFrom(ops, i + 1, prog, loop_stack, loop_start)

IsNoBracket(op) == op \notin {"LoopBegin", "LoopEnd"}

\* a parse that, where the brackets do not match, returns the instructions
\* outside any bracket instead of panicking
parseLenient(ops) ==
    LET r == ParseFrom(ops, 0, << >>, 0, 0)
        kept == SelectSeq(ops, IsNoBracket)
    IN  IF r.ok THEN r ELSE ParseOk([k \in 1..Len(kept) |-> PlainInstr(kept[k])])

parse(ops) == ParseFrom(ops, 0, << >>, 0, 0)

(* ------------------------------- state -------------------------------- *)

VARIABLES
    source,           \* main: the text read from the file
    opcodes,          \* main: the result of lex
    program,          \* main: the result of parse
    bf_memory,        \* main: the tape, indexed from 0; << >> before it is made
    data_pointer,     \* main: the data pointer
    stdin,            \* the bytes not yet read from standard input
    stdout,           \* the bytes written to standard output
    stack,            \* the calls of run in progress, outermost first: for
                      \* each the 1-based position of its for loop
    phase,            \* where main is: "lex", "parse", "alloc", "run", "done",
                      \* or "panicked" once a panic has ended the process
    panic,            \* the panic that ended the process, or "none"
    panic_pos,        \* the index in the message of a panic of parse
    panic_nested,     \* a panic of parse was raised by a recursive call
    overflow_checks,  \* the build panics on integer overflow
    body_runs         \* history: the calls of run on a loop body made so far,
                      \* counted by RunLoopTestCounted only

vars == <<source, opcodes, program, bf_memory, data_pointer, stdin, stdout,
          stack, phase, panic, panic_pos, panic_nested, overflow_checks, body_runs>>

\* all sequences over S of length at most n
SeqsUpTo(S, n) == UNION {[1..k -> S] : k \in 0..n}

Init ==
    /\ source \in SeqsUpTo(SourceChars, MaxSrcLen)
    /\ stdin \in SeqsUpTo(InputBytes, MaxInput)
    /\ overflow_checks \in BOOLEAN
    /\ opcodes = << >>
    /\ program = << >>
    /\ bf_memory = << >>
    /\ data_pointer = 0
    /\ stdout = << >>
    /\ stack = << >>
    /\ phase = "lex"
    /\ panic = "none"
    /\ panic_pos = 0
    /\ panic_nested = FALSE
    /\ body_runs = 0

(* ------------------------------- main --------------------------------- *)

\* let opcodes = lex(source);
MainLex ==
    /\ phase = "lex"
    /\ opcodes' = lex(source)
    /\ phase' = "parse"
    /\ UNCHANGED <<source, program, bf_memory, data_pointer, stdin, stdout,
                   stack, panic, panic_pos, panic_nested, overflow_checks, body_runs>>

\* let program = parse(opcodes);
MainParse ==
    /\ phase = "parse"
    /\ LET r == parse(opcodes) IN
         IF r.ok
         THEN /\ program' = r.program
              /\ phase' = "alloc"
              /\ UNCHANGED <<panic, panic_pos, panic_nested>>
         ELSE /\ panic' = r.err
              /\ panic_pos' = r.pos
              /\ panic_nested' = r.nested
              /\ phase' = "panicked"
              /\ UNCHANGED program
    /\ UNCHANGED <<source, opcodes, bf_memory, data_pointer, stdin, stdout,
                   stack, overflow_checks, body_runs>>

\* let mut bf_memory = vec![0; 1024]; let mut data_pointer = 0; run(...)
MainAlloc ==
    /\ phase = "alloc"
    /\ bf_memory' = [c \in 0..(TapeSize - 1) |-> 0]
    /\ data_pointer' = 0
    /\ stack' = <<1>>
    /\ phase' = "run"
    /\ UNCHANGED <<source, opcodes, program, stdin, stdout, panic, panic_pos,
                   panic_nested, overflow_checks, body_runs>>

(* -------------------------------- run --------------------------------- *)

\* the instruction sequence that the call of run at the end of path walks
RECURSIVE InstrsAt(_, _)
InstrsAt(prog, path) ==
    IF Len(path) <= 1
    THEN prog
    ELSE InstrsAt(prog[path[1]].body, Tail(path))

Instructions == InstrsAt(program, stack)

\* the position of the innermost for loop
Pos == stack[Len(stack)]

\* the for loop of the innermost call is at an instruction of kind op
At(op) ==
    /\ phase = "run"
    /\ Pos <= Len(Instructions)
    /\ Instructions[Pos].op = op

\* the for loop moves to the next instruction
Next1(stk) == [stk EXCEPT ![Len(stk)] = @ + 1]

\* an index that reads 0 outside the tape instead of panicking
IndexOrZero(mem, p) ==
    IF p >= 0 /\ p < TapeSize THEN <<mem[p]>> ELSE <<0>>

\* bf_memory[p] of Vec<u8>: <<value>>, or << >> where the index is out of
\* bounds and the access panics
Index(mem, p) ==
    IF p >= 0 /\ p < TapeSize THEN <<mem[p]>> ELSE << >>

\* an increment that does not wrap
WrapIncNoWrap(v) == v + 1

\* u8 += 1 and u8 -= 1 where they do not panic
WrapInc(v) == (v + 1) % CellMod

\* a decrement that takes two
WrapDecByTwo(v) == (v - 2) % CellMod

WrapDec(v) == (v - 1) % CellMod

\* the bytes print!("{}", v as char) writes: the UTF-8 encoding of U+00vv
CharBytes(v) ==
    IF v < 128
    THEN <<v>>
    ELSE <<192 + (v \div 64), 128 + (v % 64)>>

\* an error that is recorded while the for loop goes on
FailAndContinue(kind) ==
    /\ panic' = kind
    /\ phase' = phase
    /\ stack' = Next1(stack)
    /\ UNCHANGED <<panic_pos, panic_nested>>

\* a panic inside run: the process ends where it is
Fail(kind) ==
    /\ panic' = kind
    /\ phase' = "panicked"
    /\ stack' = stack
    /\ UNCHANGED <<panic_pos, panic_nested>>

\* the instruction is done and the for loop goes on
Continue ==
    /\ stack' = Next1(stack)
    /\ UNCHANGED <<phase, panic, panic_pos, panic_nested>>

\* Instruction::IncrementPointer => *data_pointer += 1
RunIncrementPointer ==
    /\ At("IncrementPointer")
    /\ IF data_pointer = UsizeMax
       THEN IF overflow_checks
            THEN Fail("Overflow") /\ UNCHANGED data_pointer
            ELSE data_pointer' = 0 /\ Continue
       ELSE data_pointer' = data_pointer + 1 /\ Continue
    /\ UNCHANGED <<source, opcodes, program, bf_memory, stdin, stdout,
                   overflow_checks, body_runs>>

\* Instruction::DecrementPointer => *data_pointer -= 1
RunDecrementPointer ==
    /\ At("DecrementPointer")
    /\ IF data_pointer = 0
       THEN IF overflow_checks
            THEN Fail("Overflow") /\ UNCHANGED data_pointer
            ELSE data_pointer' = UsizeMax /\ Continue
       ELSE data_pointer' = data_pointer - 1 /\ Continue
    /\ UNCHANGED <<source, opcodes, program, bf_memory, stdin, stdout,
                   overflow_checks, body_runs>>

\* Instruction::Increment => bf_memory[*data_pointer] += 1
RunIncrement ==
    /\ At("Increment")
    /\ LET cell == Index(bf_memory, data_pointer) IN
         IF cell = << >>
         THEN Fail("IndexOutOfBounds") /\ UNCHANGED bf_memory
         ELSE IF cell[1] = CellMod - 1 /\ overflow_checks
              THEN Fail("Overflow") /\ UNCHANGED bf_memory
              ELSE /\ bf_memory' = [bf_memory EXCEPT ![data_pointer] = WrapInc(cell[1])]
                   /\ Continue
    /\ UNCHANGED <<source, opcodes, program, data_pointer, stdin, stdout,
                   overflow_checks, body_runs>>

\* Instruction::Decrement => bf_memory[*data_pointer] -= 1
RunDecrement ==
    /\ At("Decrement")
    /\ LET cell == Index(bf_memory, data_pointer) IN
         IF cell = << >>
         THEN Fail("IndexOutOfBounds") /\ UNCHANGED bf_memory
         ELSE IF cell[1] = 0 /\ overflow_checks
              THEN Fail("Overflow") /\ UNCHANGED bf_memory
              ELSE /\ bf_memory' = [bf_memory EXCEPT ![data_pointer] = WrapDec(cell[1])]
                   /\ Continue
    /\ UNCHANGED <<source, opcodes, program, data_pointer, stdin, stdout,
                   overflow_checks, body_runs>>

\* a Write that clears the cell it has written
RunWriteClears ==
    /\ At("Write")
    /\ Len(stdout) < MaxOutput
    /\ LET cell == Index(bf_memory, data_pointer) IN
         IF cell = << >>
         THEN Fail("IndexOutOfBounds") /\ UNCHANGED <<stdout, bf_memory>>
         ELSE /\ stdout' = stdout \o CharBytes(cell[1])
              /\ bf_memory' = [bf_memory EXCEPT ![data_pointer] = 0]
              /\ Continue
    /\ UNCHANGED <<source, opcodes, program, data_pointer, stdin,
                   overflow_checks, body_runs>>

\* Instruction::Write => print!("{}", bf_memory[*data_pointer] as char)
RunWrite ==
    /\ At("Write")
    /\ Len(stdout) < MaxOutput
    /\ LET cell == Index(bf_memory, data_pointer) IN
         IF cell = << >>
         THEN Fail("IndexOutOfBounds") /\ UNCHANGED stdout
         ELSE /\ stdout' = stdout \o CharBytes(cell[1])
              /\ Continue
    /\ UNCHANGED <<source, opcodes, program, bf_memory, data_pointer, stdin,
                   overflow_checks, body_runs>>

\* a Read that stores 0 at the end of input instead of panicking
RunReadZeroAtEof ==
    /\ At("Read")
    /\ Index(bf_memory, data_pointer) # << >>
    /\ bf_memory' = [bf_memory EXCEPT
                       ![data_pointer] = IF stdin = << >> THEN 0 ELSE Head(stdin)]
    /\ stdin' = IF stdin = << >> THEN stdin ELSE Tail(stdin)
    /\ Continue
    /\ UNCHANGED <<source, opcodes, program, data_pointer, stdout,
                   overflow_checks, body_runs>>

\* Instruction::Read => { let mut input = [0; 1];
\*                        stdin().read_exact(&mut input).expect(..);
\*                        bf_memory[*data_pointer] = input[0]; }
RunRead ==
    /\ At("Read")
    /\ IF stdin = << >>
       THEN Fail("InputExhausted") /\ UNCHANGED <<stdin, bf_memory>>
       ELSE /\ stdin' = Tail(stdin)
            /\ IF Index(bf_memory, data_pointer) = << >>
               THEN Fail("IndexOutOfBounds") /\ UNCHANGED bf_memory
               ELSE /\ bf_memory' = [bf_memory EXCEPT ![data_pointer] = Head(stdin)]
                    /\ Continue
    /\ UNCHANGED <<source, opcodes, program, data_pointer, stdout,
                   overflow_checks, body_runs>>

\* a condition that ends the loop one iteration early
LoopCondAboveOne(cell) == cell > 1

\* the condition of while bf_memory[*data_pointer] != 0, cell being the
\* value the index gave
LoopCond(cell) == cell # 0

\* a Loop whose condition reads cell 0 instead of the cell at the pointer
RunLoopTestAtCellZero ==
    /\ At("Loop")
    /\ IF LoopCond(bf_memory[0])
       THEN stack' = Append(stack, 1)
       ELSE stack' = Next1(stack)
    /\ UNCHANGED <<phase, panic, panic_pos, panic_nested>>
    /\ UNCHANGED <<source, opcodes, program, bf_memory, data_pointer, stdin,
                   stdout, overflow_checks, body_runs>>

\* Instruction::Loop(nested_instructions) => while bf_memory[*data_pointer] != 0
\*     { run(&nested_instructions, ..) }: one evaluation of the condition,
\*     followed by the call of run on the body or by the end of the while
LoopTest ==
    /\ At("Loop")
    /\ LET cell == Index(bf_memory, data_pointer) IN
         IF cell = << >>
         THEN Fail("IndexOutOfBounds")
         ELSE /\ IF LoopCond(cell[1])
                 THEN stack' = Append(stack, 1)
                 ELSE stack' = Next1(stack)
              /\ UNCHANGED <<phase, panic, panic_pos, panic_nested>>
    /\ UNCHANGED <<source, opcodes, program, bf_memory, data_pointer, stdin,
                   stdout, overflow_checks>>

RunLoopTest == LoopTest /\ UNCHANGED body_runs

\* the same step, with the history of the calls of run on a body kept
RunLoopTestCounted ==
    /\ LoopTest
    /\ body_runs' = IF Len(stack') > Len(stack) THEN body_runs + 1 ELSE body_runs

\* a return from a loop body that goes on after the Loop, as an if would
RunReturnOnce ==
    /\ phase = "run"
    /\ Pos > Len(Instructions)
    /\ IF Len(stack) = 1
       THEN phase' = "done" /\ UNCHANGED stack
       ELSE stack' = Next1(SubSeq(stack, 1, Len(stack) - 1)) /\ UNCHANGED phase
    /\ UNCHANGED <<source, opcodes, program, bf_memory, data_pointer, stdin,
                   stdout, panic, panic_pos, panic_nested, overflow_checks,
                   body_runs>>

\* the for loop of a call of run is over: a nested call returns to the while
\* of its Loop, the outermost call returns to main, which ends
RunReturn ==
    /\ phase = "run"
    /\ Pos > Len(Instructions)
    /\ IF Len(stack) = 1
       THEN phase' = "done" /\ UNCHANGED stack
       ELSE stack' = SubSeq(stack, 1, Len(stack) - 1) /\ UNCHANGED phase
    /\ UNCHANGED <<source, opcodes, program, bf_memory, data_pointer, stdin,
                   stdout, panic, panic_pos, panic_nested, overflow_checks, body_runs>>

Next ==
    \/ MainLex
    \/ MainParse
    \/ MainAlloc
    \/ RunIncrementPointer
    \/ RunDecrementPointer
    \/ RunIncrement
    \/ RunDecrement
    \/ RunWrite
    \/ RunRead
    \/ RunLoopTest
    \/ RunReturn

Spec == Init /\ [][Next]_vars

\* main up to the return of parse: what lex and parse do with every text.
\* Neither reads standard input nor does arithmetic that can overflow, so
\* one choice of stdin and of overflow_checks stands for all.
InitParse ==
    /\ source \in SeqsUpTo(SourceChars, MaxParseLen)
    /\ stdin = << >>
    /\ overflow_checks = TRUE
    /\ opcodes = << >>
    /\ program = << >>
    /\ bf_memory = << >>
    /\ data_pointer = 0
    /\ stdout = << >>
    /\ stack = << >>
    /\ phase = "lex"
    /\ panic = "none"
    /\ panic_pos = 0
    /\ panic_nested = FALSE
    /\ body_runs = 0

NextParse ==
    \/ MainLex
    \/ MainParse

SpecParse == InitParse /\ [][NextParse]_vars

(* ------------------------- notions of the claims ---------------------- *)

\* main has called parse, and parse has panicked or has returned
ParsePanicked == panic \in {"UnmatchedLoopEnd", "UnmatchedLoopStart"}

ParseReturned ==
    \/ phase \in {"alloc", "run", "done"}
    \/ phase = "panicked" /\ ~ParsePanicked

\* loop-begins minus loop-ends among the first k opcodes
RECURSIVE Depth(_, _)
Depth(ops, k) ==
    IF k = 0
    THEN 0
    ELSE Depth(ops, k - 1)
         + (IF ops[k] = "LoopBegin" THEN 1 ELSE IF ops[k] = "LoopEnd" THEN -1 ELSE 0)

\* the 1-based position j holds a loop-end met while no loop-begin is open
EndWithoutBegin(ops, j) == ops[j] = "LoopEnd" /\ Depth(ops, j - 1) = 0

\* some prefix has more loop-ends than loop-begins
SomeEndWithoutBegin(ops) == \E k \in 1..Len(ops) : Depth(ops, k) < 0

\* the loop-begin at the 1-based position j is closed by a later loop-end
Closed(ops, j) ==
    \E k \in (j + 1)..Len(ops) :
        /\ ops[k] = "LoopEnd"
        /\ Depth(ops, k) = Depth(ops, j - 1)
        /\ \A m \in j..(k - 1) : Depth(ops, m) > Depth(ops, j - 1)

\* the sequence contains a loop-begin that no later loop-end closes
SomeBeginNeverClosed(ops) ==
    \E j \in 1..Len(ops) : ops[j] = "LoopBegin" /\ ~Closed(ops, j)

\* equal in number and properly nested
Balanced(ops) ==
    /\ \A k \in 1..Len(ops) : Depth(ops, k) >= 0
    /\ Depth(ops, Len(ops)) = 0

\* the number of non-Loop instructions of a tree, nested bodies included
RECURSIVE CountPlain(_)
CountPlain(instrs) ==
    IF instrs = << >>
    THEN 0
    ELSE (IF Head(instrs).op = "Loop" THEN CountPlain(Head(instrs).body) ELSE 1)
         + CountPlain(Tail(instrs))

\* the number of opcodes that are neither loop-begin nor loop-end
NonLoopOpcodes(ops) ==
    Cardinality({k \in 1..Len(ops) : ops[k] \notin {"LoopBegin", "LoopEnd"}})

\* the opcode of each command symbol
OpcodeOf ==
    [c \in CommandSymbols |->
        CASE c = ">" -> "IncrementPointer"
          [] c = "<" -> "DecrementPointer"
          [] c = "+" -> "Increment"
          [] c = "-" -> "Decrement"
          [] c = "." -> "Write"
          [] c = "," -> "Read"
          [] c = "[" -> "LoopBegin"
          [] c = "]" -> "LoopEnd"]

IsCommandSymbol(c) == c \in CommandSymbols

\* the command symbols of a text, in order, each as its opcode
CommandsOf(src) ==
    LET kept == SelectSeq(src, IsCommandSymbol)
    IN  [k \in 1..Len(kept) |-> OpcodeOf[kept[k]]]

\* the data pointer is a valid index of the tape
PointerInRange == data_pointer >= 0 /\ data_pointer < TapeSize

(* ------------------------ the counted programs ------------------------ *)

\* the sequence made of n times x
Repeat(x, n) == [k \in 1..n |-> x]

\* the numbers of repetitions tried: the small ones and the largest number
\* a cell holds
PlusCounts == (0..MaxPlus) \cup {CellMod - 1}

\* n times "+" followed by "[-]", the loop that counts its cell down, or by
\* "[>+<-]", the loop that moves cell 0 to cell 1
PlusLoops ==
    {[head |-> "+", n |-> n, tail |-> t] :
        n \in PlusCounts,
        t \in {<<"[", "-", "]">>, <<"[", ">", "+", "<", "-", "]">>}}

\* "<>": out of the tape below cell 0 and back in; TapeSize - 1 times ">"
\* followed by "><": up to the last cell, out of the tape above it and back
EndMoves ==
    {[head |-> ">", n |-> 0, tail |-> <<"<", ">">>],
     [head |-> ">", n |-> TapeSize - 1, tail |-> <<">", "<">>]}

\* the text of such a program
TextOf(p) == Repeat(p.head, p.n) \o p.tail

\* what parse(lex(..)) returns for it: the repeated symbol is no bracket, so
\* the for loop of parse pushes one instruction for each at depth 0 before
\* it comes to the tail
TreeOf(p) ==
    Repeat(PlainInstr(OpcodeOf[p.head]), p.n) \o parse(lex(p.tail)).program

\* main on the file of one of these programs, which read no input. The
\* recursion of LexFrom and ParseFrom is as deep as the text is long, so a
\* text of more than MaxPlus repetitions starts where parse has returned.
InitPrograms ==
    /\ \E p \in PlusLoops \cup EndMoves :
          /\ source = TextOf(p)
          /\ IF p.n <= MaxPlus
             THEN phase = "lex" /\ opcodes = << >> /\ program = << >>
             ELSE /\ phase = "alloc"
                  /\ opcodes = CommandsOf(TextOf(p))
                  /\ program = TreeOf(p)
    /\ stdin = << >>
    /\ overflow_checks \in BOOLEAN
    /\ bf_memory = << >>
    /\ data_pointer = 0
    /\ stdout = << >>
    /\ stack = << >>
    /\ panic = "none"
    /\ panic_pos = 0
    /\ panic_nested = FALSE
    /\ body_runs = 0

NextPrograms ==
    \/ MainLex
    \/ MainParse
    \/ MainAlloc
    \/ RunIncrementPointer
    \/ RunDecrementPointer
    \/ RunIncrement
    \/ RunDecrement
    \/ RunLoopTestCounted
    \/ RunReturn

\* The process is sequential and nothing suspends it: while a step of main
\* or run is possible, one is taken.
SpecPrograms == InitPrograms /\ [][NextPrograms]_vars /\ WF_vars(NextPrograms)

\* the program is n times "+" followed by the text tail
IsPlusLoop(tail) ==
    /\ Len(source) >= Len(tail)
    /\ source = Repeat("+", Len(source) - Len(tail)) \o tail

(* -------------------------------- claims ------------------------------ *)

\* C1: a Loop tests the cell at the data pointer as it is at the time of the
\* test, before every execution of its body: a test that reads nonzero starts
\* the body at its first instruction, a test that reads zero leaves the loop,
\* and neither changes tape, pointer, input or output; a body is started by
\* nothing but such a test, is walked one instruction at a time, and returns
\* only when it is past its last instruction, and then to the test of its Loop.
C1_LoopTestsCurrentCell ==
    [][ /\ (At("Loop") /\ PointerInRange) =>
            /\ bf_memory[data_pointer] # 0 => stack' = Append(stack, 1)
            /\ bf_memory[data_pointer] = 0 => stack' = Next1(stack)
            /\ phase' = "run"
            /\ UNCHANGED <<bf_memory, data_pointer, stdin, stdout>>
        /\ (phase = "run" /\ Len(stack') > Len(stack)) =>
            /\ At("Loop")
            /\ PointerInRange
            /\ bf_memory[data_pointer] # 0
        /\ (phase = "run" /\ Len(stack') < Len(stack)) =>
            /\ Pos = Len(Instructions) + 1
            /\ stack' = SubSeq(stack, 1, Len(stack) - 1)
            /\ InstrsAt(program, stack')[stack'[Len(stack')]].op = "Loop"
            /\ UNCHANGED <<bf_memory, data_pointer, stdin, stdout>>
        /\ (phase = "run" /\ Len(stack') = Len(stack) /\ stack' # stack) =>
            /\ Pos <= Len(Instructions)
            /\ stack' = Next1(stack)
      ]_vars

\* C1 witness: a loop entered on a nonzero cell was left after its body moved
\* the pointer to a zero cell, the cell it was entered on still nonzero
C1_Witness ==
    /\ phase = "done"
    /\ Len(program) = 2
    /\ program[2].op = "Loop"
    /\ program[2].body # << >>
    /\ data_pointer = 1
    /\ bf_memory[0] # 0
    /\ bf_memory[1] = 0

\* C2: Increment and Decrement at an in-range pointer never fail and leave
\* (v + 1) mod 256 and (v - 1) mod 256 in the cell, and execution goes on with
\* the next instruction.
C2_WrapNeverFails ==
    [][ /\ (At("Increment") /\ PointerInRange) =>
            /\ panic' = "none"
            /\ bf_memory' = [bf_memory EXCEPT ![data_pointer] = (@ + 1) % 256]
            /\ stack' = Next1(stack)
        /\ (At("Decrement") /\ PointerInRange) =>
            /\ panic' = "none"
            /\ bf_memory' = [bf_memory EXCEPT ![data_pointer] = (@ - 1) % 256]
            /\ stack' = Next1(stack)
      ]_vars

\* C3 as stated: parse fails with UnmatchedLoopEnd iff some prefix has more
\* loop-ends than loop-begins, fails with UnmatchedLoopStart iff some
\* loop-begin is never closed, and succeeds exactly when neither holds.
C3_AsStated ==
    ParseReturned \/ ParsePanicked =>
        /\ panic = "UnmatchedLoopEnd" <=> SomeEndWithoutBegin(opcodes)
        /\ panic = "UnmatchedLoopStart" <=> SomeBeginNeverClosed(opcodes)
        /\ ParseReturned <=>
               ~SomeEndWithoutBegin(opcodes) /\ ~SomeBeginNeverClosed(opcodes)

\* C3 amended: parse fails with UnmatchedLoopEnd iff some prefix has more
\* loop-ends than loop-begins; it fails with UnmatchedLoopStart iff no prefix
\* has more loop-ends than loop-begins and some loop-begin is never closed;
\* it succeeds exactly when neither defect is present.
C3_EndBeforeStart ==
    ParseReturned \/ ParsePanicked =>
        /\ panic = "UnmatchedLoopEnd" <=> SomeEndWithoutBegin(opcodes)
        /\ panic = "UnmatchedLoopStart" <=>
               ~SomeEndWithoutBegin(opcodes) /\ SomeBeginNeverClosed(opcodes)
        /\ ParseReturned <=>
               ~SomeEndWithoutBegin(opcodes) /\ ~SomeBeginNeverClosed(opcodes)

\* C3 witness: parse has failed on a sequence with both defects
C3_Witness ==
    /\ ParsePanicked
    /\ SomeEndWithoutBegin(opcodes)
    /\ SomeBeginNeverClosed(opcodes)

\* C4: the position parse reports is an index of the whole opcode sequence:
\* for UnmatchedLoopEnd that of the first loop-end met with no loop-begin
\* open, for UnmatchedLoopStart that of a loop-begin that no loop-end closes;
\* [LoopEnd] and [LoopBegin] both fail at position 0.
C4_ReportedPosition ==
    /\ ParsePanicked =>
        /\ panic_pos \in 0..(Len(opcodes) - 1)
        /\ panic = "UnmatchedLoopEnd" =>
            /\ EndWithoutBegin(opcodes, panic_pos + 1)
            /\ \A j \in 1..panic_pos : ~EndWithoutBegin(opcodes, j)
        /\ panic = "UnmatchedLoopStart" =>
            /\ opcodes[panic_pos + 1] = "LoopBegin"
            /\ ~Closed(opcodes, panic_pos + 1)
    /\ (phase # "lex" /\ phase # "parse" /\ opcodes = <<"LoopEnd">>) =>
            panic = "UnmatchedLoopEnd" /\ panic_pos = 0
    /\ (phase # "lex" /\ phase # "parse" /\ opcodes = <<"LoopBegin">>) =>
            panic = "UnmatchedLoopStart" /\ panic_pos = 0

\* C4 witness: an unmatched loop-end reported behind a closed loop
C4_Witness ==
    /\ panic = "UnmatchedLoopEnd"
    /\ panic_pos >= 2
    /\ \E j \in 1..panic_pos : opcodes[j] = "LoopBegin"

\* C5: on a balanced opcode sequence parse succeeds and the tree holds as
\* many non-Loop instructions, nested bodies included, as the input holds
\* non-loop opcodes.
C5_CommandsPreserved ==
    ((ParseReturned \/ ParsePanicked) /\ Balanced(opcodes)) =>
        /\ ParseReturned
        /\ CountPlain(program) = NonLoopOpcodes(opcodes)

\* C5 witness: a parsed program with commands inside and outside a loop
C5_Witness ==
    /\ ParseReturned
    /\ \E k \in 1..Len(program) :
          program[k].op = "Loop" /\ CountPlain(program[k].body) >= 1
    /\ \E k \in 1..Len(program) : program[k].op # "Loop"

\* C6: lex never fails and returns the command symbols of the text, each as
\* its opcode, in order: as many opcodes as command symbols, never more than
\* characters, and none for a text without command symbols.
C6_LexKeepsCommands ==
    phase # "lex" =>
        /\ opcodes = CommandsOf(source)
        /\ Len(opcodes) = Cardinality({k \in 1..Len(source) : source[k] \in CommandSymbols})
        /\ Len(opcodes) <= Len(source)
        /\ (\A k \in 1..Len(source) : source[k] \notin CommandSymbols) => opcodes = << >>
        /\ phase = "parse" => panic = "none"

\* C6 witness: a text with comment characters between different commands
C6_Witness ==
    /\ phase = "parse"
    /\ Len(opcodes) >= 2
    /\ opcodes[1] # opcodes[2]
    /\ Len(opcodes) < Len(source)

\* C7 as stated: while execution runs or has ended normally, the data pointer
\* is a valid index of the tape.
C7_PointerAlwaysValid ==
    phase \in {"run", "done"} => PointerInRange

\* C7 amended: pointer moves can leave execution running with the pointer
\* outside the tape, but every instruction that then accesses the cell at the
\* pointer (Increment, Decrement, Write, Read, a Loop test) stops execution
\* with a failure and leaves tape, pointer and output as they are; the tape
\* changes only at a pointer that is a valid index.
C7_AccessOutsideFails ==
    [][ /\ (~PointerInRange /\ (\E op \in {"Increment", "Decrement", "Write", "Read", "Loop"} : At(op))) =>
            /\ phase' = "panicked"
            /\ panic' \in {"IndexOutOfBounds", "InputExhausted"}
            /\ UNCHANGED <<bf_memory, data_pointer, stdout, stack>>
        /\ (phase = "run" /\ bf_memory' # bf_memory) => PointerInRange
      ]_vars

\* C7 witness: execution stopped by an access with the pointer outside the tape
C7_Witness ==
    /\ phase = "panicked"
    /\ panic = "IndexOutOfBounds"
    /\ ~PointerInRange

\* C8 as stated: a Read with no byte available fails with input exhausted and
\* leaves tape and pointer unchanged and the for loop where it is; a Read with
\* a byte available consumes exactly that byte and stores it in the cell at
\* the pointer.
C8_AsStated ==
    [][ At("Read") =>
          IF stdin = << >>
          THEN /\ phase' = "panicked"
               /\ panic' = "InputExhausted"
               /\ UNCHANGED <<bf_memory, data_pointer, stack, stdout, stdin>>
          ELSE /\ stdin' = Tail(stdin)
               /\ data_pointer \in DOMAIN bf_memory'
               /\ bf_memory'[data_pointer] = Head(stdin)
               /\ phase' = "run"
      ]_vars

\* C8 amended: a Read with no byte available fails with input exhausted and
\* leaves tape and pointer unchanged and the for loop where it is; a Read with
\* a byte available consumes exactly that byte and, the pointer being a valid
\* index, stores it in the cell at the pointer and changes no other cell;
\* with the pointer outside the tape the byte is consumed all the same, the
\* tape is left unchanged and execution fails with an out-of-bounds access.
C8_ReadOneByteOrFail ==
    [][ At("Read") =>
          IF stdin = << >>
          THEN /\ phase' = "panicked"
               /\ panic' = "InputExhausted"
               /\ UNCHANGED <<bf_memory, data_pointer, stack, stdout, stdin>>
          ELSE /\ stdin' = Tail(stdin)
               /\ UNCHANGED <<data_pointer, stdout>>
               /\ IF PointerInRange
                  THEN /\ bf_memory' = [bf_memory EXCEPT ![data_pointer] = Head(stdin)]
                       /\ stack' = Next1(stack)
                       /\ phase' = "run"
                       /\ panic' = "none"
                  ELSE /\ phase' = "panicked"
                       /\ panic' = "IndexOutOfBounds"
                       /\ UNCHANGED <<bf_memory, stack>>
      ]_vars

\* C8 witness: a Read failed on exhausted input with a nonzero cell under
\* the pointer
C8_Witness ==
    /\ panic = "InputExhausted"
    /\ PointerInRange
    /\ bf_memory[data_pointer] # 0

\* C9: each executed Write appends one byte to the output, equal to the value
\* of the cell at the data pointer.
C9_OneBytePerWrite ==
    [][ (At("Write") /\ PointerInRange) =>
            stdout' = Append(stdout, bf_memory[data_pointer])
      ]_vars

\* C10: once a failure has occurred nothing is executed any more: tape,
\* pointer, input, output and the position in the program stay as they are,
\* and the step that fails writes no output and changes neither tape nor
\* pointer.
C10_FailureStopsAll ==
    [][ /\ (panic # "none" \/ phase = "panicked") => UNCHANGED vars
        /\ (panic' # "none") =>
              /\ phase' = "panicked"
              /\ UNCHANGED <<bf_memory, data_pointer, stdout, stack, program>>
      ]_vars

\* C10 witness: a failure inside the body of a loop
C10_Witness ==
    /\ phase = "panicked"
    /\ panic \in {"InputExhausted", "IndexOutOfBounds", "Overflow"}
    /\ Len(stack) >= 2

\* the text "[-]"
CountDownLoop == <<"[", "-", "]">>

\* C11: run on n Increment (0 <= n <= 255) followed by Loop([Decrement]),
\* from the zeroed tape and pointer 0, ends, and ends with the tested cell
\* at 0 after exactly n calls of run on the loop's body (none for n = 0, one
\* for n = 1), in either build.
C11_CountDownEnds ==
    IsPlusLoop(CountDownLoop)
        => <>( /\ phase = "done"
               /\ data_pointer = 0
               /\ bf_memory[0] = 0
               /\ body_runs = Len(source) - Len(CountDownLoop) )

\* the loop has counted down from 255 and the run has ended
C11_Witness ==
    /\ IsPlusLoop(CountDownLoop)
    /\ Len(source) - Len(CountDownLoop) = CellMod - 1
    /\ phase = "done"
    /\ body_runs = CellMod - 1

\* the text "[>+<-]"
MoveLoop == <<"[", ">", "+", "<", "-", "]">>

\* the tree of n Increment followed by the Loop of "[>+<-]"
MoveTree(n) ==
    Repeat(PlainInstr("Increment"), n)
        \o <<LoopInstr(<<PlainInstr("IncrementPointer"), PlainInstr("Increment"),
                         PlainInstr("DecrementPointer"), PlainInstr("Decrement")>>)>>

\* C12: main on n times "+" (0 <= n <= 255) followed by "[>+<-]": parse
\* returns n Increment followed by one Loop of the four instructions, and run
\* ends with cell 0 at 0, cell 1 at n, every other cell at 0 and the pointer
\* at 0, in either build.
C12_MoveEnds ==
    IsPlusLoop(MoveLoop)
        => /\ [](phase = "alloc" => program = MoveTree(Len(source) - Len(MoveLoop)))
           /\ <>( /\ phase = "done"
                  /\ data_pointer = 0
                  /\ bf_memory = [c \in 0..(TapeSize - 1) |->
                                    IF c = 1 THEN Len(source) - Len(MoveLoop) ELSE 0] )

\* 255 has been moved from cell 0 to cell 1 and the run has ended
C12_Witness ==
    /\ IsPlusLoop(MoveLoop)
    /\ phase = "done"
    /\ bf_memory[0] = 0
    /\ bf_memory[1] = CellMod - 1

\* main has made the tape: run has been called
TapeMade == phase \in {"run", "done"} \/ (phase = "panicked" /\ ~ParsePanicked)

\* C13: run is first called with a tape of exactly 1024 cells, all 0, and
\* the pointer at 0; from then on, whatever run does, the tape has exactly
\* 1024 cells and each holds a value in 0..255.
C13_TapeShape ==
    /\ TapeMade => bf_memory \in [0..(TapeSize - 1) -> 0..(CellMod - 1)]
    /\ (phase = "run" /\ stack = <<1>>)
          => /\ bf_memory = [c \in 0..(TapeSize - 1) |-> 0]
             /\ data_pointer = 0

\* a cell has wrapped from 0 to 255 and another has been written from input
C13_Witness ==
    /\ phase = "done"
    /\ bf_memory[0] = CellMod - 1
    /\ bf_memory[1] = 1
    /\ data_pointer = 1

\* the next instruction moves the pointer out of the tape, below cell 0 or
\* above the last cell
MovesOut ==
    \/ At("DecrementPointer") /\ data_pointer = 0
    \/ At("IncrementPointer") /\ data_pointer = TapeSize - 1

\* C14: a move of the pointer below cell 0 and a move above cell 1023 are
\* handled the same way. In a given build the move below 0 fails exactly
\* when the build checks overflow, so the same holds of the move above 1023:
\* "<>" from cell 0 and "><" from cell 1023 both fail at their first move
\* or both go on.
C14_SameAtBothEnds ==
    [][MovesOut => ((phase' = "panicked") <=> overflow_checks)]_vars

\* the instruction tree written back out as opcodes
RECURSIVE Unparse(_)
Unparse(instrs) ==
    IF instrs = << >>
    THEN << >>
    ELSE (IF Head(instrs).op = "Loop"
          THEN <<"LoopBegin">> \o Unparse(Head(instrs).body) \o <<"LoopEnd">>
          ELSE <<Head(instrs).op>>)
         \o Unparse(Tail(instrs))

\* the number of instructions the outermost call of parse has pushed when
\* it comes to the opcode at the 1-based position j, that one included
TopIndex(ops, j) ==
    Cardinality({m \in 1..j : Depth(ops, m - 1) = 0 /\ ops[m] # "LoopEnd"})

\* the loop-begin at j, met at depth 0, is closed by the loop-end at k
TopPair(ops, j, k) ==
    /\ ops[j] = "LoopBegin"
    /\ Depth(ops, j - 1) = 0
    /\ k > j
    /\ Depth(ops, k) = 0
    /\ \A m \in j..(k - 1) : Depth(ops, m) > 0

\* C15: on every balanced opcode sequence parse succeeds with a tree that,
\* written back out, is the input sequence; each matched pair met by a call
\* of parse gives one Loop at its place whose body is what parse returns
\* for the opcodes strictly between the pair, the empty body for "[]".
C15_TreeKeepsOrderAndNesting ==
    ((ParseReturned \/ ParsePanicked) /\ Balanced(opcodes)) =>
        /\ ParseReturned
        /\ Unparse(program) = opcodes
        /\ \A j, k \in 1..Len(opcodes) :
              TopPair(opcodes, j, k) =>
                  program[TopIndex(opcodes, j)]
                      = [op |-> "Loop",
                         body |-> parse(SubSeq(opcodes, j + 1, k - 1)).program]

\* a parsed program with a loop that holds an empty loop and something else
C15_Witness ==
    /\ ParseReturned
    /\ \E i \in 1..Len(program) :
          /\ program[i].op = "Loop"
          /\ Len(program[i].body) >= 2
          /\ \E j \in 1..Len(program[i].body) :
                program[i].body[j] = [op |-> "Loop", body |-> << >>]

\* run has been called on Increment followed by a Loop whose body is empty
\* or one Write, and possibly by more: the tested cell is 1 at every test
EndlessLoop ==
    /\ TapeMade
    /\ Len(program) >= 2
    /\ program[1] = [op |-> "Increment", body |-> << >>]
    /\ program[2].op = "Loop"
    /\ program[2].body \in {<< >>, <<[op |-> "Write", body |-> << >>]>>}

\* C16: run on Increment, Loop([]) or on Increment, Loop([Write]) never
\* ends, by return or by panic, and never comes to an instruction after the
\* Loop: it stays at the Loop with the pointer at 0 and, once inside, cell 0
\* at 1 and every other cell at 0; with the empty body it writes nothing,
\* with Write it writes the byte 1 again and again; and a next step is
\* always possible (below the bound on the output kept), so nothing but
\* the cell reading 0 ends the loop.
C16_LoopNeverEnds ==
    EndlessLoop =>
        /\ phase = "run"
        /\ stack[1] <= 2
        /\ data_pointer = 0
        /\ stack[1] = 2 => bf_memory = [c \in 0..(TapeSize - 1) |->
                                           IF c = 0 THEN 1 ELSE 0]
        /\ program[2].body = << >> => stdout = << >>
        /\ \A i \in 1..Len(stdout) : stdout[i] = 1
        /\ Len(stdout) < MaxOutput => ENABLED Next

\* the loop of Increment, Loop([Write]) has gone round as often as the bound
\* on the output allows
C16_Witness ==
    /\ EndlessLoop
    /\ program[2].body # << >>
    /\ Len(stdout) = MaxOutput
    /\ Len(stack) = 2

\* the step changes no cell but the one at the pointer
OnlyCellAtPointer ==
    IF PointerInRange
    THEN bf_memory' = [bf_memory EXCEPT ![data_pointer] = bf_memory'[data_pointer]]
    ELSE bf_memory' = bf_memory

\* what a step of run on an instruction that is no pointer move leaves alone
FrameOfTheOthers ==
    /\ phase = "run" => program' = program
    /\ (At("Increment") \/ At("Decrement"))
          => OnlyCellAtPointer /\ UNCHANGED <<data_pointer, stdin, stdout>>
    /\ (At("Read") /\ phase' = "run")
          => OnlyCellAtPointer /\ UNCHANGED <<data_pointer, stdout>>
    /\ At("Write") => UNCHANGED <<bf_memory, data_pointer, stdin>>
    /\ At("Loop") => UNCHANGED <<bf_memory, data_pointer, stdin, stdout>>

\* C17 as stated: every IncrementPointer and DecrementPointer changes the
\* pointer by exactly 1 and leaves tape, input and output alone; Increment,
\* Decrement and a successful Read change no cell but the one at the
\* pointer; Write changes neither tape nor pointer; a Loop test changes
\* nothing; the instruction tree is the same after every step.
C17_AsStated ==
    [][ /\ At("IncrementPointer")
            => /\ data_pointer' = data_pointer + 1
               /\ UNCHANGED <<bf_memory, stdin, stdout>>
        /\ At("DecrementPointer")
            => /\ data_pointer' = data_pointer - 1
               /\ UNCHANGED <<bf_memory, stdin, stdout>>
        /\ FrameOfTheOthers ]_vars

\* C17: a pointer move changes the pointer by exactly 1 (modulo 2^64, the
\* usize of UsizeMax) and leaves tape, input and output alone, except that
\* in a build with overflow checks the move that would wrap (DecrementPointer
\* at 0, IncrementPointer at usize::MAX) panics and changes nothing; the
\* rest as stated.
C17_FrameOrFail ==
    [][ /\ At("IncrementPointer")
            => /\ IF overflow_checks /\ data_pointer = UsizeMax
                  THEN phase' = "panicked" /\ data_pointer' = data_pointer
                  ELSE phase' = "run" /\ data_pointer' = data_pointer + 1
               /\ UNCHANGED <<bf_memory, stdin, stdout>>
        /\ At("DecrementPointer")
            => /\ IF overflow_checks /\ data_pointer = 0
                  THEN phase' = "panicked" /\ data_pointer' = data_pointer
                  ELSE phase' = "run" /\ data_pointer' = data_pointer - 1
               /\ UNCHANGED <<bf_memory, stdin, stdout>>
        /\ FrameOfTheOthers ]_vars

\* a DecrementPointer at cell 0 has panicked, after a Read stored its byte
C17_Witness ==
    /\ phase = "panicked"
    /\ panic = "Overflow"
    /\ overflow_checks
    /\ data_pointer = 0
    /\ Instructions[Pos].op = "DecrementPointer"
    /\ bf_memory[0] = CellMod - 1
    /\ stdout # << >>

\* C18: for every text whose brackets do not match, main ends in parse with
\* a structural error before run is called: no tape is made, no instruction
\* is executed, nothing is written and no input is consumed, also where
\* the text starts with instructions that would read and write (",.[").
C18_ErrorBeforeExecution ==
    /\ [](~Balanced(opcodes) =>
             /\ phase \in {"parse", "panicked"}
             /\ phase = "panicked" => ParsePanicked
             /\ bf_memory = << >>
             /\ stack = << >>
             /\ data_pointer = 0
             /\ stdout = << >>)
    /\ [][(phase \in {"lex", "parse"} \/ ParsePanicked)
              => stdin' = stdin /\ stdout' = stdout]_vars

\* parse has panicked on ",.[" while a byte of input was waiting
C18_Witness ==
    /\ opcodes = <<"Read", "Write", "LoopBegin">>
    /\ phase = "panicked"
    /\ ParsePanicked
    /\ stdin # << >>

\* C19: no recursive call of parse on the sub-range of a loop panics: the
\* sub-range between a loop-begin met at depth 0 and the loop-end that
\* closes it is balanced, and every panic of parse, for a loop-end without
\* beginning or a loop-begin left open, comes from the outermost call, so
\* that its index is one of the whole sequence.
C19_OnlyOutermostPanics ==
    /\ \A j, k \in 1..Len(opcodes) :
          TopPair(opcodes, j, k) => Balanced(SubSeq(opcodes, j + 1, k - 1))
    /\ ParsePanicked =>
          /\ ~panic_nested
          /\ panic_pos \in 0..(Len(opcodes) - 1)
          /\ panic = "UnmatchedLoopEnd" => opcodes[panic_pos + 1] = "LoopEnd"
          /\ panic = "UnmatchedLoopStart" => opcodes[panic_pos + 1] = "LoopBegin"

\* parse has panicked after a recursive call on a non-empty sub-range had
\* returned
C19_Witness ==
    /\ panic = "UnmatchedLoopEnd"
    /\ \E j, k \in 1..Len(opcodes) :
          /\ TopPair(opcodes, j, k)
          /\ k - j >= 2
          /\ k <= panic_pos

====
